---- MODULE Spec2Model ----
(***************************************************************************)
(* Model of the scrapers (EasyApps/scrapers/scrapers).                     *)
(*                                                                         *)
(* Spec: the storage pipelines of pipelines.py over a PostgreSQL store,    *)
(* ClassOfferingsPostgresPipeline (Flow A, with the professor refresh it   *)
(* triggers for a new term) and PolyRatingsPostgresPipeline (Flow B).      *)
(* The store is the record db (the committed tables); tx is the view       *)
(* inside an open `with conn.transaction()` block and equals db outside.   *)
(* Leaving the block normally commits (db' = tx); leaving it with an       *)
(* exception rolls back (db unchanged).                                    *)
(*                                                                         *)
(* TermSpec: Flow A alone on a term whose homepage metadata changes from   *)
(* run to run. PureSpec: the pure functions of the pipelines, called on    *)
(* every input of the model. RowSpec: the row loop of parse_subject_page.  *)
(* CrawlSpec: the requests of ClassOfferingsSpider over a site.            *)
(***************************************************************************)
EXTENDS Integers, Sequences, FiniteSets, Bags, TLC

\* ------------------------------------------------------------------ bounds
\* Most items one run buffers in _items (process_item calls per run).
MaxItems == 2
\* Most records in one professor snapshot (fetched, or buffered by the ratings run).
MaxProfs == 2

\* ------------------------------------------------------------ value domains
\* SQL NULL / Python None.
Null == "NULL"

TermCodes == {"2258", "2262"}

\* A string as the sequence of its characters.
FallName == <<"F", "a", "l", "l", " ", "2", "0", "2", "5">>
WinterName == <<"W", "i", "n", "t", "e", "r", " ", "2", "0", "2", "6">>

\* The term name the term homepage shows for a term code.
TermNameOf(code) == IF code = "2258" THEN FallName ELSE WinterName

\* term_date_text as the parts str.split(" to ") gives.
TermDateTextOf(code) ==
    IF code = "2258" THEN <<"September 18, 2025", "December 12, 2025">>
    ELSE <<"January 5, 2026", "March 13, 2026">>

\* The meeting patterns a row can carry: (days, start_time, end_time, facility_descr).
Meetings ==
    { [days |-> "MWF", start_time |-> "08:10:00", end_time |-> "09:00:00",
       facility_descr |-> "014-0255"],
      [days |-> Null, start_time |-> Null, end_time |-> Null,
       facility_descr |-> Null] }

Instructors == {"Ada"}

\* The items parse_subject_page yields (class_offerings_spider.py:232-252); subject,
\* catalog_nbr, class_section, component, descr and enrollment_available are
\* non-key columns written exactly like instructor_name, which stands for them.
OfferingItems ==
    { [term |-> c, term_name |-> TermNameOf(c), term_date_text |-> TermDateTextOf(c),
       class_nbr |-> 1001, days |-> m.days, start_time |-> m.start_time,
       end_time |-> m.end_time, facility_descr |-> m.facility_descr,
       instructor_name |-> i] :
      c \in TermCodes, m \in Meetings, i \in Instructors }

\* The items of one term, 2268, over runs in which its homepage shows different
\* metadata: the season span with the name is there or missing (term_name ""), the
\* date span holds the date range or a text that is no date range.
Fall2026Name == <<"F", "a", "l", "l", " ", "2", "0", "2", "6">>

HomepageVariantItems ==
    { [term |-> "2268", term_name |-> n, term_date_text |-> d,
       class_nbr |-> 1001, days |-> "MWF", start_time |-> "08:10:00",
       end_time |-> "09:00:00", facility_descr |-> "014-0255",
       instructor_name |-> i] :
      n \in {<<>>, Fall2026Name},
      d \in {<<"TBA">>, <<"September 17, 2026", "December 11, 2026">>},
      i \in Instructors }

\* dict.get(key, default) on a record used as a dict.
Get(d, key, default) == IF key \in DOMAIN d THEN d[key] ELSE default

\* Python truthiness of a string-or-None value (`not item["professor_id"]`):
\* None and the empty string are falsy.
Truthy(v) == v # Null /\ v # ""

\* Truthiness of d.get(key) for a text held as a character sequence (`not name`):
\* an absent key gives None, and None and the empty text are falsy.
HasText(d, key) == key \in DOMAIN d /\ d[key] # <<>>

\* A tag mapping (label -> vote count) is the set of its items; {} is the empty one.
NoTags == {}

\* Raw professor records of the ratings API (result.data[]); names are character
\* sequences, ratings are decimal texts. They carry the API's field names (id,
\* materialClear); one has no tags key, one an empty last name, one no identifier.
RawProfessors ==
    { [id |-> "p1", firstName |-> <<"A", "l">>, lastName |-> <<"N", "g">>,
       overallRating |-> "3.1", materialClear |-> "2.9", tags |-> {[tag |-> "Clear", vote_count |-> 1]}],
      [id |-> "p1", firstName |-> <<"A", "l">>, lastName |-> <<"N", "g">>,
       overallRating |-> "3.4", materialClear |-> "3.0"],
      [id |-> "p2", firstName |-> <<"B", "o">>, lastName |-> <<>>,
       overallRating |-> "2.0", materialClear |-> "2.5", tags |-> {[tag |-> "Clear", vote_count |-> 2]}],
      [firstName |-> <<"C", "y">>, lastName |-> <<"X">>,
       overallRating |-> "1.0", materialClear |-> "1.0", tags |-> {[tag |-> "Clear", vote_count |-> 3],
                 [tag |-> "Fair", vote_count |-> 1]}] }

\* ------------------------------------------------------------ pure helpers
Digits == {"0", "1", "2", "3", "4", "5", "6", "7", "8", "9"}

DigitVal(c) ==
    CASE c = "0" -> 0 [] c = "1" -> 1 [] c = "2" -> 2 [] c = "3" -> 3 [] c = "4" -> 4
      [] c = "5" -> 5 [] c = "6" -> 6 [] c = "7" -> 7 [] c = "8" -> 8 [] OTHER -> 9

\* `sub in s` for strings.
Contains(s, sub) ==
    \E i \in 1..(Len(s) - Len(sub) + 1) : SubSeq(s, i, i + Len(sub) - 1) = sub

\* re.search(r"(\d{4})", s): the positions where four digits in a row start.
YearStarts(s) == { i \in 1..(Len(s) - 3) : \A k \in 0..3 : s[i + k] \in Digits }

\* academic_year with the year of the name taken as it stands.
AcademicYearUnadjusted(term_name) ==
    IF YearStarts(term_name) = {} THEN 2025
    ELSE LET i == CHOOSE j \in YearStarts(term_name) :
                      \A k \in YearStarts(term_name) : j <= k
         IN  DigitVal(term_name[i]) * 1000 + DigitVal(term_name[i + 1]) * 100
               + DigitVal(term_name[i + 2]) * 10 + DigitVal(term_name[i + 3])

\* academic_year of a term name (pipelines.py:157-162).
AcademicYear(term_name) ==
    IF YearStarts(term_name) = {} THEN 2025
    ELSE LET i == CHOOSE j \in YearStarts(term_name) :
                      \A k \in YearStarts(term_name) : j <= k
             year == DigitVal(term_name[i]) * 1000 + DigitVal(term_name[i + 1]) * 100
                       + DigitVal(term_name[i + 2]) * 10 + DigitVal(term_name[i + 3])
         IN  IF Contains(term_name, <<"F", "a", "l", "l">>) THEN year ELSE year - 1

\* datetime.strptime(part.strip(), "%B %d, %Y").date() on the date texts of the
\* model: the ISO date, or "ValueError" for a text that is no long-form date.
StrpDate(part) ==
    CASE part = "September 18, 2025" -> "2025-09-18"
      [] part = "December 12, 2025" -> "2025-12-12"
      [] part = "January 5, 2026" -> "2026-01-05"
      [] part = "March 13, 2026" -> "2026-03-13"
      [] part = "September 17, 2026" -> "2026-09-17"
      [] part = "December 11, 2026" -> "2026-12-11"
      [] OTHER -> "ValueError"

\* (term_start, term_end) of a term_date_text (pipelines.py:146-155). The text is
\* given as its " to "-separated parts; term_start is assigned before term_end is
\* parsed, so it survives a ValueError raised by the second part.
TermDates(parts) ==
    IF Len(parts) < 2 THEN [term_start |-> Null, term_end |-> Null]
    ELSE IF StrpDate(parts[1]) = "ValueError"
         THEN [term_start |-> Null, term_end |-> Null]
    ELSE IF StrpDate(parts[2]) = "ValueError"
         THEN [term_start |-> StrpDate(parts[1]), term_end |-> Null]
    ELSE [term_start |-> StrpDate(parts[1]), term_end |-> StrpDate(parts[2])]

\* str.strip(chars): drop leading and trailing characters that are in chars.
RECURSIVE LStrip(_, _)
LStrip(s, chars) ==
    IF s # <<>> /\ Head(s) \in chars THEN LStrip(Tail(s), chars) ELSE s

RECURSIVE RStrip(_, _)
RStrip(s, chars) ==
    IF s # <<>> /\ s[Len(s)] \in chars THEN RStrip(SubSeq(s, 1, Len(s) - 1), chars)
    ELSE s

Strip(s, chars) == RStrip(LStrip(s, chars), chars)

\* f"{last}, {first}".strip(", ").strip()
LastFirst(last, first) == Strip(Strip(last \o <<",", " ">> \o first, {",", " "}), {" "})

\* _normalize_professor_item reading the identifier and the clarity metric from the
\* older key first.
NormalizeOlderFirst(raw) ==
    [ professor_id |-> Get(raw, "id", Get(raw, "professor_id", Null)),
      name |-> IF HasText(raw, "name") THEN raw.name
               ELSE LastFirst(Get(raw, "lastName", <<>>), Get(raw, "firstName", <<>>)),
      overallRating |-> Get(raw, "overallRating", Null),
      clarity |-> Get(raw, "materialClear", Get(raw, "clarity", Null)),
      tags |-> Get(raw, "tags", NoTags) ]

\* _normalize_professor_item (pipelines.py:16-32); studentDifficulties and numEvals
\* are copied like overallRating, which stands for them.
NormalizeProfessorItem(raw) ==
    [ professor_id |-> Get(raw, "professor_id", Get(raw, "id", Null)),
      name |-> IF HasText(raw, "name") THEN raw.name
               ELSE LastFirst(Get(raw, "lastName", <<>>), Get(raw, "firstName", <<>>)),
      overallRating |-> Get(raw, "overallRating", Null),
      clarity |-> Get(raw, "clarity", Get(raw, "materialClear", Null)),
      tags |-> Get(raw, "tags", NoTags) ]

\* The item PolyRatingsSpider.parse yields for one raw record.
PolyRatingsParse(prof) ==
    [ professor_id |-> Get(prof, "id", Null),
      name |-> LastFirst(Get(prof, "lastName", <<>>), Get(prof, "firstName", <<>>)),
      overallRating |-> Get(prof, "overallRating", Null),
      clarity |-> Get(prof, "materialClear", Null),
      tags |-> Get(prof, "tags", NoTags) ]

\* ------------------------------------------------------------------ store
\* The four tables. terms, professor_ratings and professor_tags are sets of rows;
\* class_offerings is a bag of rows (its serial id column is left out, so two rows
\* alike in every other column are two copies). last_scraped = NOW() is left out.
EmptyStore ==
    [ terms |-> {}, class_offerings |-> EmptyBag,
      professor_ratings |-> {}, professor_tags |-> {} ]

\* The serial id of a new row of terms or professor_ratings. An id is opaque and
\* only ever compared for equality, so the model gives the row the position of its
\* unique key in a fixed list: distinct keys get distinct ids, as from the sequence.
KeyOrder == << "2258", "2262", "p1", "p2", "2268" >>

SerialId(key) == CHOOSE i \in 1..Len(KeyOrder) : KeyOrder[i] = key

\* SELECT id FROM terms WHERE term_code = %s (pipelines.py:165-169).
TermRows(store, term_code) == { r \in store.terms : r.term_code = term_code }

\* UpsertTerm with is_active left out of the INSERT's column list: a new row gets
\* the column's default.
UpsertTermInactive(store, term_code, term_name, dates, academic_year) ==
    IF TermRows(store, term_code) = {}
    THEN store.terms \cup
           { [ id |-> SerialId(term_code), term_code |-> term_code,
               term_name |-> term_name, term_start |-> dates.term_start,
               term_end |-> dates.term_end, academic_year |-> academic_year,
               is_active |-> FALSE ] }
    ELSE { IF r.term_code = term_code
           THEN [r EXCEPT !.term_name = term_name, !.term_start = dates.term_start,
                          !.term_end = dates.term_end, !.is_active = TRUE]
           ELSE r : r \in store.terms }

\* INSERT INTO terms ... ON CONFLICT (term_code) DO UPDATE SET term_name, term_start,
\* term_end, is_active (pipelines.py:171-183): the table after the statement.
UpsertTerm(store, term_code, term_name, dates, academic_year) ==
    IF TermRows(store, term_code) = {}
    THEN store.terms \cup
           { [ id |-> SerialId(term_code), term_code |-> term_code,
               term_name |-> term_name, term_start |-> dates.term_start,
               term_end |-> dates.term_end, academic_year |-> academic_year,
               is_active |-> TRUE ] }
    ELSE { IF r.term_code = term_code
           THEN [r EXCEPT !.term_name = term_name, !.term_start = dates.term_start,
                          !.term_end = dates.term_end, !.is_active = TRUE]
           ELSE r : r \in store.terms }

\* RETURNING id of the upsert.
TermIdOf(store, term_code) == (CHOOSE r \in store.terms : r.term_code = term_code).id

\* OfferingRow with its first two columns swapped: class_nbr lands in term_id.
OfferingRowSwapped(tid, item) ==
    [ term_id |-> item.class_nbr, class_nbr |-> tid, days |-> item.days,
      start_time |-> item.start_time, end_time |-> item.end_time,
      facility_descr |-> item.facility_descr,
      instructor_name |-> item.instructor_name ]

\* One tuple of `rows` (pipelines.py:242-259).
OfferingRow(term_id, item) ==
    [ term_id |-> term_id, class_nbr |-> item.class_nbr, days |-> item.days,
      start_time |-> item.start_time, end_time |-> item.end_time,
      facility_descr |-> item.facility_descr,
      instructor_name |-> item.instructor_name ]

\* The DELETE without its WHERE clause: every term's offerings go.
DeleteOfferingsAll(offerings, term_id) == EmptyBag

\* DELETE FROM class_offerings WHERE term_id = %s (pipelines.py:263-266).
DeleteOfferings(offerings, term_id) ==
    [ r \in { x \in DOMAIN offerings : x.term_id # term_id } |-> offerings[r] ]

\* The arbiter of ON CONFLICT (term_id, class_nbr, days, start_time, end_time,
\* facility_descr) (pipelines.py:223): a unique index takes two rows to conflict
\* when all its columns are equal and none is NULL (NULLs are distinct).
Conflicts(old, row) ==
    /\ old.term_id = row.term_id /\ old.class_nbr = row.class_nbr
    /\ old.days = row.days /\ old.start_time = row.start_time
    /\ old.end_time = row.end_time /\ old.facility_descr = row.facility_descr
    /\ row.days # Null /\ row.start_time # Null
    /\ row.end_time # Null /\ row.facility_descr # Null

\* One INSERT ... ON CONFLICT ... DO UPDATE SET <non-key columns> (pipelines.py:213-233).
InsertOffering(offerings, row) ==
    IF \E old \in DOMAIN offerings : Conflicts(old, row)
    THEN LET old == CHOOSE x \in DOMAIN offerings : Conflicts(x, row)
         IN  (offerings (-) SetToBag({old}))
               (+) SetToBag({[old EXCEPT !.instructor_name = row.instructor_name]})
    ELSE offerings (+) SetToBag({row})

\* cur.executemany(INSERT, rows): one INSERT per row, in order (pipelines.py:267).
RECURSIVE ExecuteMany(_, _)
ExecuteMany(offerings, rows) ==
    IF rows = <<>> THEN offerings
    ELSE ExecuteMany(InsertOffering(offerings, Head(rows)), Tail(rows))

\* INSERT INTO professor_ratings ... ON CONFLICT (professor_key) DO UPDATE
\* (pipelines.py:42-62, 78-85): the table after the statement.
UpsertProfessor(store, item) ==
    IF \E r \in store.professor_ratings : r.professor_key = item.professor_id
    THEN { IF r.professor_key = item.professor_id
           THEN [r EXCEPT !.professor_name = item.name,
                          !.overall_rating = item.overallRating,
                          !.clarity = item.clarity]
           ELSE r : r \in store.professor_ratings }
    ELSE store.professor_ratings \cup
           { [ id |-> SerialId(item.professor_id),
               professor_key |-> item.professor_id, professor_name |-> item.name,
               overall_rating |-> item.overallRating, clarity |-> item.clarity ] }

\* RETURNING id of the professor upsert (pipelines.py:87-91).
ProfessorIdOf(ratings, key) == (CHOOSE r \in ratings : r.professor_key = key).id

\* The DELETE_TAGS statement left out: the tags of earlier refreshes stay.
DeleteTagsSkipped(tags, professor_db_id) == tags

\* DELETE FROM professor_tags WHERE professor_id = %s (pipelines.py:70, 92).
DeleteTags(tags, professor_db_id) == { t \in tags : t.professor_id # professor_db_id }

\* The INSERT_TAG statements of one professor (pipelines.py:64-68, 94-96).
InsertTags(tags, professor_db_id, tags_list) ==
    tags \cup { [ professor_id |-> professor_db_id, tag |-> kv.tag,
                  vote_count |-> kv.vote_count ] : kv \in tags_list }

\* The body of the loop of _apply_professor_snapshot for one record
\* (pipelines.py:73-96): the store as the open transaction sees it afterwards.
RefreshProfessor(store, prof) ==
    LET item == NormalizeProfessorItem(prof)
        ratings == UpsertProfessor(store, item)
        professor_db_id == ProfessorIdOf(ratings, item.professor_id)
    IN  IF ~Truthy(item.professor_id) THEN store
        ELSE [ store EXCEPT
                 !.professor_ratings = ratings,
                 !.professor_tags =
                     InsertTags(DeleteTags(store.professor_tags, professor_db_id),
                                professor_db_id, item.tags) ]

\* ------------------------------------------------------------------ state
VARIABLES
    db,             \* the committed store
    tx,             \* the store as the connection sees it: db outside a transaction
    pc,             \* where the running spider's pipeline is
    spider,         \* "class_offerings" or "polyratings": which pipeline runs
    items,          \* self._items
    term_meta,      \* self._term_meta
    by_term,        \* the groups of by_term.items() not replaced yet, in dict order
    term_id,        \* term_id of the group being replaced
    saw_new_term,   \* saw_new_term
    professors,     \* the snapshot _apply_professor_snapshot iterates
    idx,            \* its position in the snapshot (1-based)
    failed,         \* the step whose exception ended the unit, "none" if none did
    log,            \* the refresh outcome lines spider.logger got in this run
    opened,         \* history: db when the flow now running began (open_spider,
                    \* and the start of the refresh a class-offerings run triggers)
    before,         \* history: db when the current unit (term group, refresh) began
    newly_seen      \* history: the bag of term codes with, for each, the number of
                    \* runs in which _get_or_create_term returned is_new = True

\* The spiders that run before the pipelines (the class-offerings crawl and its row
\* parser) and the pure functions the pipelines call have state of their own. Each
\* is explored by a specification of its own, in which the pipelines stand still;
\* in Spec it is these parts that stand still.
VARIABLES
    call,           \* the last call of a pure function: [fn, arg, res]
    page,           \* the rows of `table#listing tbody tr` of one subject page
    row_i,          \* the row parse_subject_page's loop is at (1-based)
    yielded,        \* the items parse_subject_page has yielded, in order
    parse_pc,       \* "rows" while the generator runs, then "done", or "raised"
    site,           \* the schedule site: what each term index page holds
    pending,        \* the requests the scheduler holds
    seen,           \* the URLs the scheduler's duplicate filter has let through
    found,          \* the (term page, term metadata) pairs parse_homepage produced
    crawl_pc        \* "start", "crawling", "done"

pvars == << db, tx, pc, spider, items, term_meta, by_term, term_id, saw_new_term,
            professors, idx, failed, log, opened, before, newly_seen >>

svars == << call, page, row_i, yielded, parse_pc, site, pending, seen, found, crawl_pc >>

vars == << pvars, svars >>

\* A dict with no keys.
EmptyDict == [ k \in {} |-> Null ]

\* by_term as close_spider builds it (pipelines.py:207-211): one group per term
\* code, in the order the codes first occur in _items.
RECURSIVE GroupByTerm(_)
GroupByTerm(its) ==
    IF its = <<>> THEN <<>>
    ELSE LET code == Head(its).term
             Same(i) == i.term = code
             Other(i) == i.term # code
         IN  << [term_code |-> code, items |-> SelectSeq(its, Same)] >>
               \o GroupByTerm(SelectSeq(its, Other))

\* The rows list of one group (pipelines.py:242-259).
Rows(tid, its) == [ i \in 1..Len(its) |-> OfferingRow(tid, its[i]) ]

\* The statements run so far stay committed (no transaction around them).
RollbackReplaceLost(committed, working) == working

\* What leaving `with self.conn.transaction()` by an exception leaves committed
\* (pipelines.py:262-267): the transaction's statements are rolled back.
RollbackReplace(committed, working) == committed

\* Each professor committed on its own: the turns before the failing one stay.
RollbackSnapshotLost(committed, working) == working

\* The same for the transaction around the snapshot loop (pipelines.py:72-96).
RollbackSnapshot(committed, working) == committed

\* The refresh's exception is not caught and leaves close_spider.
AfterRefreshFailureUncaught == "raised"

\* Where close_spider goes once the refresh's exception is caught
\* (pipelines.py:280-287): it logs, closes the connection and returns.
AfterRefreshFailure == "closed"

\* The professor snapshots the ratings endpoint can return.
Snapshots == UNION { [1..n -> RawProfessors] : n \in 0..MaxProfs }

\* No spider has started and no function has been called.
SpidersIdle ==
    /\ call = [fn |-> "none"]
    /\ page = <<>> /\ row_i = 1 /\ yielded = <<>> /\ parse_pc = "done"
    /\ site = EmptyDict /\ pending = {} /\ seen = {} /\ found = {}
    /\ crawl_pc = "done"

\* No pipeline has run: the store is empty.
PipelinesIdle ==
    /\ db = EmptyStore
    /\ tx = EmptyStore
    /\ pc = "idle"
    /\ spider = "none"
    /\ items = <<>>
    /\ term_meta = EmptyDict
    /\ by_term = <<>>
    /\ term_id = 0
    /\ saw_new_term = FALSE
    /\ professors = <<>>
    /\ idx = 1
    /\ failed = "none"
    /\ log = {}
    /\ opened = EmptyStore
    /\ before = EmptyStore
    /\ newly_seen = EmptyBag

Init == PipelinesIdle /\ SpidersIdle

\* open_spider of either pipeline (pipelines.py:101-104, 134-138), as the start of
\* a new process: the previous run has ended.
OpenSpider(s) ==
    /\ pc \in {"idle", "closed", "raised", "interrupted"}
    /\ spider' = s
    /\ pc' = "collecting"
    /\ items' = <<>>
    /\ term_meta' = EmptyDict
    /\ by_term' = <<>>
    /\ term_id' = 0
    /\ saw_new_term' = FALSE
    /\ professors' = <<>>
    /\ idx' = 1
    /\ failed' = "none"
    /\ log' = {}
    /\ opened' = db
    /\ before' = db
    /\ UNCHANGED << db, tx >>
    /\ UNCHANGED svars
    /\ UNCHANGED newly_seen

\* process_item writing each item through to the store as it arrives.
ProcessItemWritesThrough(item) ==
    /\ pc = "collecting" /\ spider = "class_offerings"
    /\ Len(items) < MaxItems
    /\ items' = Append(items, item)
    /\ LET terms == UpsertTerm(db, item.term, item.term_name,
                               TermDates(item.term_date_text),
                               AcademicYear(item.term_name))
           done == [db EXCEPT !.terms = terms,
                              !.class_offerings =
                                  InsertOffering(@, OfferingRow(SerialId(item.term), item))]
       IN  db' = done /\ tx' = done
    /\ UNCHANGED << pc, spider, term_meta, by_term, term_id, saw_new_term, professors,
                    idx, failed, log, opened, before >>
    /\ UNCHANGED svars
    /\ UNCHANGED newly_seen

\* ClassOfferingsPostgresPipeline.process_item (pipelines.py:192-197).
ClassOfferingsProcessItem(item) ==
    /\ pc = "collecting" /\ spider = "class_offerings"
    /\ Len(items) < MaxItems
    /\ term_meta' = IF item.term \in DOMAIN term_meta THEN term_meta
                    ELSE [ c \in DOMAIN term_meta \cup {item.term} |->
                             IF c = item.term THEN item ELSE term_meta[c] ]
    /\ items' = Append(items, item)
    /\ UNCHANGED << db, tx, pc, spider, by_term, term_id, saw_new_term, professors,
                    idx, failed, log, opened, before >>
    /\ UNCHANGED svars
    /\ UNCHANGED newly_seen

\* PolyRatingsPostgresPipeline.process_item (pipelines.py:106-108).
PolyRatingsProcessItem(item) ==
    /\ pc = "collecting" /\ spider = "polyratings"
    /\ Len(items) < MaxProfs
    /\ items' = Append(items, item)
    /\ UNCHANGED << db, tx, pc, spider, term_meta, by_term, term_id, saw_new_term,
                    professors, idx, failed, log, opened, before >>
    /\ UNCHANGED svars
    /\ UNCHANGED newly_seen

\* The crawl is interrupted before close_spider starts.
Interrupt ==
    /\ pc = "collecting"
    /\ pc' = "interrupted"
    /\ UNCHANGED << db, tx, spider, items, term_meta, by_term, term_id, saw_new_term,
                    professors, idx, failed, log, opened, before >>
    /\ UNCHANGED svars
    /\ UNCHANGED newly_seen

\* ClassOfferingsPostgresPipeline.close_spider up to the loop (pipelines.py:201-235).
ClassOfferingsCloseSpider ==
    /\ pc = "collecting" /\ spider = "class_offerings"
    /\ IF items = <<>>
       THEN pc' = "closed" /\ UNCHANGED by_term
       ELSE pc' = "term" /\ by_term' = GroupByTerm(items)
    /\ UNCHANGED << db, tx, spider, items, term_meta, term_id, saw_new_term,
                    professors, idx, failed, log, opened, before >>
    /\ UNCHANGED svars
    /\ UNCHANGED newly_seen

\* is_new taken from the upsert's row count, which is 1 for an insert and for an
\* update alike.
IsNewByRowCount(store, term_code) == TRUE

\* is_new of _get_or_create_term (pipelines.py:165-169, 186): the SELECT that runs
\* before the upsert, in the same transaction, found no row with the code.
IsNew(store, term_code) == TermRows(store, term_code) = {}

\* The terms table after _get_or_create_term's transaction commits
\* (pipelines.py:142-188), for the first item seen of a term.
TermsAfterUpsert(store, meta) ==
    UpsertTerm(store, meta.term, meta.term_name, TermDates(meta.term_date_text),
               AcademicYear(meta.term_name))

\* _get_or_create_term for the next group, and lines 238-240: the transaction
\* commits; is_new is whether the SELECT before the upsert found no row.
GetOrCreateTerm ==
    /\ pc = "term"
    /\ LET meta == term_meta[Head(by_term).term_code]
           is_new == IsNew(db, meta.term)
           terms == TermsAfterUpsert(db, meta)
       IN  /\ db' = [db EXCEPT !.terms = terms]
           /\ tx' = [db EXCEPT !.terms = terms]
           /\ term_id' = TermIdOf([db EXCEPT !.terms = terms], meta.term)
           /\ saw_new_term' = (saw_new_term \/ is_new)
           /\ newly_seen' = IF is_new THEN newly_seen (+) SetToBag({meta.term})
                             ELSE newly_seen
    /\ before' = db
    /\ pc' = "replace"
    /\ UNCHANGED << spider, items, term_meta, by_term, professors, idx, failed, log,
                    opened >>
    /\ UNCHANGED svars

\* A statement of _get_or_create_term's transaction raises: the transaction is
\* rolled back and the exception leaves close_spider.
GetOrCreateTermFails ==
    /\ pc = "term"
    /\ before' = db
    /\ failed' = "term_upsert"
    /\ pc' = "raised"
    /\ UNCHANGED << db, tx, spider, items, term_meta, by_term, term_id, saw_new_term,
                    professors, idx, log, opened >>
    /\ UNCHANGED svars
    /\ UNCHANGED newly_seen

\* The DELETE of the per-term transaction (pipelines.py:262-266).
ReplaceDelete ==
    /\ pc = "replace"
    /\ tx' = [db EXCEPT !.class_offerings = DeleteOfferings(db.class_offerings, term_id)]
    /\ pc' = "insert"
    /\ UNCHANGED << db, spider, items, term_meta, by_term, term_id, saw_new_term,
                    professors, idx, failed, log, opened, before >>
    /\ UNCHANGED svars
    /\ UNCHANGED newly_seen

\* The DELETE raises (store error): rollback, and the exception leaves close_spider.
ReplaceDeleteFails ==
    /\ pc = "replace"
    /\ db' = RollbackReplace(db, tx)
    /\ tx' = RollbackReplace(db, tx)
    /\ failed' = "delete"
    /\ pc' = "raised"
    /\ UNCHANGED << spider, items, term_meta, by_term, term_id, saw_new_term,
                    professors, idx, log, opened, before >>
    /\ UNCHANGED svars
    /\ UNCHANGED newly_seen

\* executemany and the commit on leaving the block (pipelines.py:267-271), then the
\* next group, or lines 273-287 when this was the last one.
ReplaceInsert ==
    /\ pc = "insert"
    /\ LET rows == Rows(term_id, Head(by_term).items)
           done == [tx EXCEPT !.class_offerings = ExecuteMany(tx.class_offerings, rows)]
       IN  db' = done /\ tx' = done
    /\ by_term' = Tail(by_term)
    /\ pc' = IF Tail(by_term) # <<>> THEN "term"
             ELSE IF saw_new_term THEN "refresh" ELSE "closed"
    /\ UNCHANGED << spider, items, term_meta, term_id, saw_new_term, professors, idx,
                    failed, log, opened, before >>
    /\ UNCHANGED svars
    /\ UNCHANGED newly_seen

\* An INSERT of executemany raises after the DELETE ran (store error, constraint
\* violation, a value the ::time cast rejects): rollback, and the exception leaves
\* close_spider, which has no handler around the loop.
ReplaceInsertFails ==
    /\ pc = "insert"
    /\ db' = RollbackReplace(db, tx)
    /\ tx' = RollbackReplace(db, tx)
    /\ failed' = "bulk_insert"
    /\ pc' = "raised"
    /\ UNCHANGED << spider, items, term_meta, by_term, term_id, saw_new_term,
                    professors, idx, log, opened, before >>
    /\ UNCHANGED svars
    /\ UNCHANGED newly_seen

\* _fetch_polyratings_professors returns a snapshot (pipelines.py:35-38, 275) and
\* _apply_professor_snapshot opens its transaction. close_spider reads none of
\* Flow A's locals from here on, so the model drops them; opened and before now
\* hold the store Flow B found.
FetchPolyratingsProfessors(snapshot) ==
    /\ pc = "refresh"
    /\ professors' = snapshot
    /\ idx' = 1
    /\ pc' = "apply"
    /\ items' = <<>> /\ term_meta' = EmptyDict /\ term_id' = 0
    /\ opened' = db /\ before' = db
    /\ UNCHANGED << db, tx, spider, by_term, saw_new_term, failed, log >>
    /\ UNCHANGED svars
    /\ UNCHANGED newly_seen

\* The ratings endpoint is unreachable: urlopen raises, the handler logs.
FetchFails ==
    /\ pc = "refresh"
    /\ before' = db
    /\ failed' = "fetch"
    /\ log' = log \cup {"refresh_failed"}
    /\ pc' = AfterRefreshFailure
    /\ UNCHANGED << db, tx, spider, items, term_meta, by_term, term_id, saw_new_term,
                    professors, idx, opened >>
    /\ UNCHANGED svars
    /\ UNCHANGED newly_seen

\* PolyRatingsPostgresPipeline.close_spider (pipelines.py:111-121): the buffered
\* items are the snapshot.
PolyRatingsCloseSpider ==
    /\ pc = "collecting" /\ spider = "polyratings"
    /\ IF items = <<>>
       THEN pc' = "closed" /\ UNCHANGED << professors, idx >>
       ELSE pc' = "apply" /\ professors' = items /\ idx' = 1
    /\ before' = db
    /\ UNCHANGED << db, tx, spider, items, term_meta, by_term, term_id, saw_new_term,
                    failed, log, opened >>
    /\ UNCHANGED svars
    /\ UNCHANGED newly_seen

\* The loop turn with `break` in place of `continue`: a record without an
\* identifier ends the loop, and the records after it are never reached.
ApplyProfessorBreaks ==
    /\ pc = "apply"
    /\ idx <= Len(professors)
    /\ tx' = RefreshProfessor(tx, professors[idx])
    /\ idx' = IF Truthy(NormalizeProfessorItem(professors[idx]).professor_id)
              THEN idx + 1 ELSE Len(professors) + 1
    /\ UNCHANGED << db, pc, spider, items, term_meta, by_term, term_id, saw_new_term,
                    professors, failed, log, opened, before >>
    /\ UNCHANGED svars
    /\ UNCHANGED newly_seen

\* One turn of the loop of _apply_professor_snapshot (pipelines.py:73-96), inside
\* its transaction.
ApplyProfessor ==
    /\ pc = "apply"
    /\ idx <= Len(professors)
    /\ tx' = RefreshProfessor(tx, professors[idx])
    /\ idx' = idx + 1
    /\ UNCHANGED << db, pc, spider, items, term_meta, by_term, term_id, saw_new_term,
                    professors, failed, log, opened, before >>
    /\ UNCHANGED svars
    /\ UNCHANGED newly_seen

\* A statement of the turn raises (store error, or the upsert returned no id):
\* the snapshot's transaction is rolled back, and the caller's handler logs
\* (pipelines.py:115-119, 280-284).
ApplyProfessorFails ==
    /\ pc = "apply"
    /\ idx <= Len(professors)
    /\ Truthy(NormalizeProfessorItem(professors[idx]).professor_id)
    /\ db' = RollbackSnapshot(db, tx)
    /\ tx' = RollbackSnapshot(db, tx)
    /\ failed' = "apply"
    /\ log' = log \cup {"refresh_failed"}
    /\ pc' = AfterRefreshFailure
    /\ UNCHANGED << spider, items, term_meta, by_term, term_id, saw_new_term,
                    professors, idx, opened, before >>
    /\ UNCHANGED svars
    /\ UNCHANGED newly_seen

\* The loop ends and the block is left: commit. The class-offerings run logs the
\* refresh (pipelines.py:277-279); both pipelines then close the connection.
ApplyCommit ==
    /\ pc = "apply"
    /\ idx > Len(professors)
    /\ db' = tx
    /\ log' = IF spider = "class_offerings" THEN log \cup {"refreshed"} ELSE log
    /\ pc' = "closed"
    /\ UNCHANGED << tx, spider, items, term_meta, by_term, term_id, saw_new_term,
                    professors, idx, failed, opened, before >>
    /\ UNCHANGED svars
    /\ UNCHANGED newly_seen

Next ==
    \/ \E s \in {"class_offerings", "polyratings"} : OpenSpider(s)
    \/ \E item \in OfferingItems : ClassOfferingsProcessItem(item)
    \/ \E raw \in RawProfessors : PolyRatingsProcessItem(PolyRatingsParse(raw))
    \/ Interrupt
    \/ ClassOfferingsCloseSpider
    \/ GetOrCreateTerm
    \/ GetOrCreateTermFails
    \/ ReplaceDelete
    \/ ReplaceDeleteFails
    \/ ReplaceInsert
    \/ ReplaceInsertFails
    \/ \E snapshot \in Snapshots : FetchPolyratingsProfessors(snapshot)
    \/ FetchFails
    \/ PolyRatingsCloseSpider
    \/ ApplyProfessor
    \/ ApplyProfessorFails
    \/ ApplyCommit

\* The two pipelines over a store, any number of runs one after the other.
Spec == Init /\ [][Next]_vars

\* The class-offerings pipeline alone, run after run, on a term whose homepage
\* metadata differs between runs; the refresh a new term triggers finds the
\* ratings endpoint unreachable.
TermNext ==
    \/ OpenSpider("class_offerings")
    \/ \E item \in HomepageVariantItems : ClassOfferingsProcessItem(item)
    \/ ClassOfferingsCloseSpider
    \/ GetOrCreateTerm
    \/ ReplaceDelete
    \/ ReplaceInsert
    \/ FetchFails

TermSpec == Init /\ [][TermNext]_vars

\* ------------------------------------------------------- pure functions, called
\* Term names as the words of a homepage's season span, joined by single spaces.
MaxWords == 3

NameWords ==
    { <<"F", "a", "l", "l">>, <<"S", "p", "r", "i", "n", "g">>,
      <<"2", "0", "2", "5">>, <<"2", "0", "2", "6">>, <<"2", "0">>,
      <<"1", "2", "0", "2", "6">> }

RECURSIVE JoinWords(_)
JoinWords(ws) ==
    IF ws = <<>> THEN <<>>
    ELSE IF Len(ws) = 1 THEN ws[1]
    ELSE ws[1] \o <<" ">> \o JoinWords(Tail(ws))

TermNames == { JoinWords(ws) : ws \in UNION { [1..n -> NameWords] : n \in 0..MaxWords } }

\* Raw professor records as dicts whose keys may be absent: every combination of a
\* direct name (absent, empty, given), first and last name (absent, empty, given),
\* the identifier under its newer key (absent, null, given) and its older key
\* (absent, given), and the clarity metric likewise.
RawVariants ==
    { n @@ f @@ l @@ i @@ o @@ c @@ m :
        n \in {EmptyDict, "name" :> <<>>, "name" :> <<"N", "g", ",", " ", "A">>},
        f \in {EmptyDict, "firstName" :> <<>>, "firstName" :> <<"A", "l">>},
        l \in {EmptyDict, "lastName" :> <<>>, "lastName" :> <<"N", "g">>},
        i \in {EmptyDict, "professor_id" :> Null, "professor_id" :> "p1"},
        o \in {EmptyDict, "id" :> "p2"},
        c \in {EmptyDict, "clarity" :> Null, "clarity" :> "4.0"},
        m \in {EmptyDict, "materialClear" :> "3.0"} }

\* _get_or_create_term derives academic_year from a term name (pipelines.py:157-162).
AcademicYearCall(term_name) ==
    /\ call.fn = "none"
    /\ call' = [fn |-> "academic_year", arg |-> term_name, res |-> AcademicYear(term_name)]
    /\ UNCHANGED << pvars, page, row_i, yielded, parse_pc, site, pending, seen, found,
                    crawl_pc >>

\* _apply_professor_snapshot normalises one record of a fetched snapshot
\* (pipelines.py:74).
NormalizeCall(raw) ==
    /\ call.fn = "none"
    /\ call' = [fn |-> "normalize", arg |-> raw, res |-> NormalizeProfessorItem(raw)]
    /\ UNCHANGED << pvars, page, row_i, yielded, parse_pc, site, pending, seen, found,
                    crawl_pc >>

\* The standalone ratings run: PolyRatingsSpider.parse turns a raw record into an
\* item (polyratings_spider.py:17-41) and the pipeline normalises the item.
ParseAndNormalizeCall(prof) ==
    /\ call.fn = "none"
    /\ call' = [fn |-> "parse_normalize", arg |-> prof,
                res |-> NormalizeProfessorItem(PolyRatingsParse(prof))]
    /\ UNCHANGED << pvars, page, row_i, yielded, parse_pc, site, pending, seen, found,
                    crawl_pc >>

PureNext ==
    \/ \E term_name \in TermNames : AcademicYearCall(term_name)
    \/ \E raw \in RawVariants : NormalizeCall(raw)
    \/ \E prof \in RawVariants : ParseAndNormalizeCall(prof)

\* The pure functions of the pipelines, each called on every input of the model.
PureSpec == Init /\ [][PureNext]_vars

\* --------------------------------------------------- the row parser of the spider
\* Most rows on one subject page.
MaxRows == 2

\* An int-or-None value: <<n>> is the int n, <<>> is None.
NoInt == << >>

Max(a, b) == IF a >= b THEN a ELSE b

\* str.strip(): the whitespace of the model's texts is the space.
Whitespace == {" "}

\* int(text) for a str: surrounding whitespace and one sign are allowed, the rest
\* must be decimal digits; <<n>> is the value, NoInt stands for ValueError.
IntParse(text) ==
    LET s == Strip(text, Whitespace)
        signed == s # <<>> /\ Head(s) \in {"+", "-"}
        body == IF signed THEN Tail(s) ELSE s
        RECURSIVE Value(_)
        Value(d) == IF d = <<>> THEN 0
                    ELSE 10 * Value(SubSeq(d, 1, Len(d) - 1)) + DigitVal(d[Len(d)])
    IN  IF body = <<>> \/ \E k \in 1..Len(body) : body[k] \notin Digits THEN NoInt
        ELSE IF signed /\ Head(s) = "-" THEN << 0 - Value(body) >>
        ELSE << Value(body) >>

\* text.split(None, 1): at most two parts, cut at the first run of whitespace.
SplitOnce(text) ==
    LET s == Strip(text, Whitespace)
        Cuts == { k \in 1..Len(s) : s[k] \in Whitespace }
    IN  IF s = <<>> THEN << >>
        ELSE IF Cuts = {} THEN << s >>
        ELSE LET k == CHOOSE c \in Cuts : \A d \in Cuts : c <= d
             IN  << SubSeq(s, 1, k - 1), LStrip(SubSeq(s, k, Len(s)), Whitespace) >>

\* row.css("td.count::text").getall() (class_offerings_spider.py:222): the text
\* nodes of the count cells, in order. A cell given as <<>> is an empty <td> and has
\* no text node, so it adds nothing to the list; a cell of spaces has one.
CountTexts(cells) ==
    LET HasTextNode(c) == c # <<>> IN SelectSeq(cells, HasTextNode)

\* enrollment_available (class_offerings_spider.py:220-230).
EnrollmentAvailable(cells) ==
    LET counts == CountTexts(cells)
    IN  IF Len(counts) >= 3
        THEN LET ecap == IntParse(Strip(counts[2], Whitespace))
                 enrl == IntParse(Strip(counts[3], Whitespace))
             IN  IF ecap = NoInt \/ enrl = NoInt THEN NoInt
                 ELSE << Max(0, ecap[1] - enrl[1]) >>
        ELSE NoInt

\* The item of a row that passed every check (class_offerings_spider.py:232-252).
\* days, times, instructor and facility come from cells of their own by steps that
\* neither skip nor raise; they are left out, as are descr, section and component.
RowItem(row) ==
    [ subject |-> SplitOnce(row.course)[1],
      catalog_nbr |-> SplitOnce(row.course)[2],
      class_nbr |-> IntParse(row.class_nbr)[1],
      enrollment_available |-> EnrollmentAvailable(row.cells) ]

\* The body of the loop with int(class_nbr_text) outside any try: a class number
\* that is no integer raises out of the generator.
RowOutcomeUncaught(row) ==
    IF Contains(row.class, <<"c", "a", "n", "c", "e", "l", "l", "e", "d">>)
    THEN [kind |-> "skip"]
    ELSE IF Len(SplitOnce(row.course)) < 2 THEN [kind |-> "skip"]
    ELSE IF Strip(row.class_nbr, Whitespace) = <<>>
            \/ Head(Strip(row.class_nbr, Whitespace)) = "*"
         THEN [kind |-> "skip"]
    ELSE IF IntParse(row.class_nbr) = NoInt THEN [kind |-> "raise"]
    ELSE [kind |-> "yield", item |-> RowItem(row)]

\* What one turn of the loop of parse_subject_page does with a row
\* (class_offerings_spider.py:156-252): it skips the row or yields its item. No
\* step of the body can raise: the two int() calls are inside try blocks.
RowOutcome(row) ==
    IF Contains(row.class, <<"c", "a", "n", "c", "e", "l", "l", "e", "d">>)
    THEN [kind |-> "skip"]
    ELSE IF Len(SplitOnce(row.course)) < 2 THEN [kind |-> "skip"]
    ELSE IF Strip(row.class_nbr, Whitespace) = <<>>
            \/ Head(Strip(row.class_nbr, Whitespace)) = "*"
         THEN [kind |-> "skip"]
    ELSE IF IntParse(row.class_nbr) = NoInt THEN [kind |-> "skip"]
    ELSE [kind |-> "yield", item |-> RowItem(row)]

\* A row as what the selectors of the loop read from it: the class attribute, the
\* text of the course link, the text of the class-number cell, the count cells.
BaseRow ==
    [ class |-> <<"e", "n", "t", "r", "y", "1">>,
      course |-> <<"C", "S", " ", "1">>,
      class_nbr |-> <<"1", "7">>,
      cells |-> << <<"3", "0">>, <<"1", "0">>, <<"1", "2">>, <<"0">>, <<"0">> >> ]

\* The rows of the model: the base row and the rows that differ from it in one of
\* the four.
RowVariants ==
    {BaseRow}
    \cup { [BaseRow EXCEPT !.class = c] :
             c \in { << >>,
                     <<"e", "n", "t", "r", "y", "1", " ",
                       "c", "a", "n", "c", "e", "l", "l", "e", "d">> } }
    \cup { [BaseRow EXCEPT !.course = c] :
             c \in { << >>, <<" ">>, <<"C", "S">>, <<" ", "C", "S", " ", " ", "1", " ">> } }
    \cup { [BaseRow EXCEPT !.class_nbr = c] :
             c \in { << >>, <<" ">>, <<"*">>, <<"*", "1", "7">>, <<"1", "7", "a">>,
                     <<" ", "2", "3", " ">> } }
    \cup { [BaseRow EXCEPT !.cells = c] :
             c \in { << >>,
                     << <<"3", "0">>, <<"1", "0">> >>,
                     << <<"3", "0">>, <<"1", "2">>, <<"1", "0">> >>,
                     << <<"3", "0">>, <<" ", "1", "2", " ">>, <<"1", "2">>, <<"0">>, <<"0">> >>,
                     << <<"3", "0">>, <<"x">>, <<"1", "2">>, <<"0">>, <<"0">> >>,
                     << <<"3", "0">>, <<"1", "0">>, <<" ">>, <<"0">>, <<"0">> >>,
                     << << >>, <<"1", "0">>, <<"1", "2">>, <<"0">>, <<"0">> >>,
                     << <<"3", "0">>, << >>, <<"1", "2">>, <<"0">>, <<"0">> >> } }

\* The subject pages of the model.
SubjectPages == UNION { [1..n -> RowVariants] : n \in 0..MaxRows }

\* parse_subject_page is called with the response of one subject page.
RowInit ==
    /\ PipelinesIdle
    /\ call = [fn |-> "none"]
    /\ page \in SubjectPages
    /\ row_i = 1 /\ yielded = <<>> /\ parse_pc = "rows"
    /\ site = EmptyDict /\ pending = {} /\ seen = {} /\ found = {}
    /\ crawl_pc = "done"

\* One turn of `for row in response.css("table#listing tbody tr")`.
ParseRow ==
    /\ parse_pc = "rows"
    /\ row_i <= Len(page)
    /\ LET out == RowOutcome(page[row_i])
       IN  IF out.kind = "raise"
           THEN parse_pc' = "raised" /\ UNCHANGED << row_i, yielded >>
           ELSE /\ row_i' = row_i + 1
                /\ yielded' = IF out.kind = "yield" THEN Append(yielded, out.item)
                              ELSE yielded
                /\ UNCHANGED parse_pc
    /\ UNCHANGED << pvars, call, page, site, pending, seen, found, crawl_pc >>

\* The loop is over: the generator returns.
ParseEnd ==
    /\ parse_pc = "rows"
    /\ row_i > Len(page)
    /\ parse_pc' = "done"
    /\ UNCHANGED << pvars, call, page, row_i, yielded, site, pending, seen, found,
                    crawl_pc >>

RowNext == ParseRow \/ ParseEnd

\* parse_subject_page over every subject page of the model.
RowSpec == RowInit /\ [][RowNext]_vars

\* ------------------------------------------------------- the crawl of the spider
\* URLs are written relative to BASE_URL. The term index pages of the site: the
\* current-term index, which start_requests asks for, and the indexes of two
\* other terms.
SeedUrl == "index_curr.htm"

IndexPages == {"index_curr.htm", "index_prev.htm", "index_next.htm"}

\* The term code in <span class="term"> of a term index page.
TermOfPage(url) ==
    IF url = "index_curr.htm" THEN "2262"
    ELSE IF url = "index_prev.htm" THEN "2258" ELSE "2268"

\* COLLEGE_SUBJECT_PAGES (class_offerings_spider.py:44-52).
CollegeSubjectPages ==
    { "all_subject_10-CAGR_curr.htm", "all_subject_20-CAED_curr.htm",
      "all_subject_40-OCOB_curr.htm", "all_subject_48-CLA_curr.htm",
      "all_subject_52-CENG_curr.htm", "all_subject_76-CSM_curr.htm",
      "all_subject_99-ALL_curr.htm" }

\* The subject pages every subject-listing page links to (td.subjectCode a).
SubjectLinks == {"subject_CSC_curr.htm"}

\* The sites of the model. Every index page links to any of the index pages
\* (term_links: cycles and links to itself included). The seed page shows its term
\* code or none, and links to subject-listing pages of its own or to none.
Sites ==
    { [ p \in IndexPages |->
          [ term_code |-> IF p = SeedUrl THEN code ELSE TermOfPage(p),
            term_links |-> links[p],
            subject_links |-> IF p = SeedUrl THEN subjects ELSE {} ] ] :
        code \in {TermOfPage(SeedUrl), ""},
        subjects \in { {}, {"all_subject_52-CENG_2262.htm"} },
        links \in [ IndexPages -> SUBSET IndexPages ] }

\* The meta dict of a request that carries none, and the one parse_homepage
\* builds (class_offerings_spider.py:92-96).
NoMeta == [term_code |-> "", term_name |-> <<>>, term_date_text |-> <<>>]

TermMeta(code) ==
    [term_code |-> code, term_name |-> TermNameOf(code),
     term_date_text |-> TermDateTextOf(code)]

\* The spider is opened on one of the sites.
CrawlInit ==
    /\ PipelinesIdle
    /\ call = [fn |-> "none"]
    /\ page = <<>> /\ row_i = 1 /\ yielded = <<>> /\ parse_pc = "done"
    /\ site \in Sites
    /\ pending = {} /\ seen = {} /\ found = {}
    /\ crawl_pc = "start"

\* start_requests (class_offerings_spider.py:64-67): one request, for the seed.
StartRequests ==
    /\ crawl_pc = "start"
    /\ pending' = {[url |-> SeedUrl, callback |-> "parse_homepage", meta |-> NoMeta]}
    /\ seen' = {SeedUrl}
    /\ crawl_pc' = "crawling"
    /\ UNCHANGED << pvars, call, page, row_i, yielded, parse_pc, site, found >>

\* parse_homepage on the response of a request (class_offerings_spider.py:69-116).
\* It returns when the page shows no term code; else it builds the term's meta
\* and yields one request per subject-listing page, the linked ones or, when the
\* page links to none, COLLEGE_SUBJECT_PAGES. It reads no other link of the page.
\* The scheduler drops a request whose URL it has let through before.
ParseHomepage ==
    /\ crawl_pc = "crawling"
    /\ \E req \in pending :
          /\ req.callback = "parse_homepage"
          /\ LET term_code == site[req.url].term_code
                 meta == TermMeta(term_code)
                 subject_pages == IF site[req.url].subject_links = {}
                                  THEN CollegeSubjectPages
                                  ELSE site[req.url].subject_links
             IN  IF term_code = ""
                 THEN /\ pending' = pending \ {req}
                      /\ UNCHANGED << seen, found >>
                 ELSE /\ found' = found \cup {[url |-> req.url, meta |-> meta]}
                      /\ pending' = (pending \ {req}) \cup
                            { [url |-> u, callback |-> "parse_college_subjects",
                               meta |-> meta] : u \in subject_pages \ seen }
                      /\ seen' = seen \cup subject_pages
    /\ UNCHANGED << pvars, call, page, row_i, yielded, parse_pc, site, crawl_pc >>

\* parse_college_subjects (class_offerings_spider.py:120-135): one request per
\* subject page the listing links to, with the meta of the response.
ParseCollegeSubjects ==
    /\ crawl_pc = "crawling"
    /\ \E req \in pending :
          /\ req.callback = "parse_college_subjects"
          /\ pending' = (pending \ {req}) \cup
                { [url |-> u, callback |-> "parse_subject_page", meta |-> req.meta] :
                    u \in SubjectLinks \ seen }
          /\ seen' = seen \cup SubjectLinks
    /\ UNCHANGED << pvars, call, page, row_i, yielded, parse_pc, site, found,
                    crawl_pc >>

\* parse_subject_page (class_offerings_spider.py:139-252) yields items and no
\* request; what it does with the rows is RowSpec's.
ParseSubjectPage ==
    /\ crawl_pc = "crawling"
    /\ \E req \in pending :
          /\ req.callback = "parse_subject_page"
          /\ pending' = pending \ {req}
    /\ UNCHANGED << pvars, call, page, row_i, yielded, parse_pc, site, seen, found,
                    crawl_pc >>

\* No request is left: the spider closes.
CrawlEnds ==
    /\ crawl_pc = "crawling"
    /\ pending = {}
    /\ crawl_pc' = "done"
    /\ UNCHANGED << pvars, call, page, row_i, yielded, parse_pc, site, pending, seen,
                    found >>

CrawlNext ==
    \/ StartRequests
    \/ ParseHomepage
    \/ ParseCollegeSubjects
    \/ ParseSubjectPage
    \/ CrawlEnds

\* One crawl of the class-offerings spider over every site of the model.
CrawlSpec == CrawlInit /\ [][CrawlNext]_vars

\* ----------------------------------------------------------------- claims
\* The class_offerings rows of the term with this code.
OfferingsOfCode(store, code) ==
    [ r \in { x \in DOMAIN store.class_offerings :
                \E t \in TermRows(store, code) : t.id = x.term_id }
        |-> store.class_offerings[r] ]

\* The items of _items that belong to a term code, in order.
GroupItems(code) ==
    LET Same(i) == i.term = code IN SelectSeq(items, Same)

\* The store holds the term's row and, as its offerings, this run's replacement set.
TermReplaced(store, code) ==
    /\ TermRows(store, code) # {}
    /\ OfferingsOfCode(store, code) =
          ExecuteMany(EmptyBag, Rows(TermIdOf(store, code), GroupItems(code)))

\* The store after the first n records of a snapshot have been refreshed.
RECURSIVE ApplyPrefix(_, _, _)
ApplyPrefix(store, profs, n) ==
    IF n = 0 THEN store
    ELSE RefreshProfessor(ApplyPrefix(store, profs, n - 1), profs[n])

\* C1: when the bulk insert of a term fails after its delete ran, the committed
\* class_offerings are exactly those stored before the replacement began; the
\* term is never left committed with its offerings deleted.
C1_FailedInsertRestoresOfferings ==
    failed = "bulk_insert" => db.class_offerings = before.class_offerings

\* C1 witness: the insert failed for a term that had offerings stored.
C1_Witness ==
    /\ failed = "bulk_insert" /\ pc = "raised"
    /\ OfferingsOfCode(before, Head(by_term).term_code) # EmptyBag

\* C2: while the class-offerings pipeline collects, and when the run is interrupted
\* before close_spider, the store is exactly the one the run opened with.
C2_CollectingWritesNothing ==
    (spider = "class_offerings" /\ pc \in {"collecting", "interrupted"})
        => db = opened

\* C2 witness: a run over a non-empty store was interrupted with items buffered.
C2_Witness ==
    /\ spider = "class_offerings" /\ pc = "interrupted"
    /\ items # <<>>
    /\ opened.terms # {} /\ opened.class_offerings # EmptyBag

\* C3 (as claimed): when the replacement of one term group fails, every other term
\* group buffered in the run is still replaced and committed.
C3_OtherTermsStillReplaced ==
    (spider = "class_offerings" /\ pc = "raised")
        => \A c \in DOMAIN term_meta \ {Head(by_term).term_code} : TermReplaced(db, c)

C5_FailedRefreshKeepsRatings ==
    failed \in {"fetch", "apply"}
        => /\ before.professor_ratings \subseteq db.professor_ratings
           /\ before.professor_tags \subseteq db.professor_tags

\* C5 witness: a refresh triggered by a new term failed after its earlier turns had
\* rewritten a stored professor and dropped stored tags.
C5_Witness ==
    /\ failed = "apply" /\ spider = "class_offerings"
    /\ \E r \in before.professor_ratings :
          r \notin ApplyPrefix(before, professors, idx - 1).professor_ratings
    /\ \E t \in before.professor_tags :
          t \notin ApplyPrefix(before, professors, idx - 1).professor_tags

\* C6: a failure of the refresh inside a class-offerings run does not leave
\* close_spider as an exception, and the Term and ClassOffering rows Flow A
\* committed in the run stay committed.
C6_RefreshFailureIsContained ==
    (spider = "class_offerings" /\ "refresh_failed" \in log)
        => /\ pc = "closed"
           /\ db.terms = before.terms
           /\ db.class_offerings = before.class_offerings
           /\ \A c \in DOMAIN term_meta : TermReplaced(db, c)

\* C6 witness: the triggered refresh failed while applying, after Flow A had
\* committed offerings.
C6_Witness ==
    /\ spider = "class_offerings" /\ failed = "apply"
    /\ idx > 1
    /\ db.class_offerings # EmptyBag

\* C7 (as claimed): at the end of a class-offerings run, the refresh was attempted
\* if and only if some term group had no Term row just before its upsert.
C7_RefreshIffNewTerm ==
    (spider = "class_offerings" /\ pc \in {"closed", "raised"})
        => (saw_new_term <=> log # {})

\* C8 (as claimed): when the delete-and-insert of a term's offerings fails, the
\* Term upsert of the same group is not committed either.
C8_TermUpsertRolledBackWithOfferings ==
    failed \in {"delete", "bulk_insert"} => db.terms = before.terms

\* No two class_offerings rows share (term, class_nbr, days, start_time, end_time,
\* facility), nulls included, and no two terms rows share a code.
NoDuplicateRows(store) ==
    /\ \A r \in DOMAIN store.class_offerings : store.class_offerings[r] = 1
    /\ \A r1, r2 \in DOMAIN store.class_offerings :
          ( /\ r1.term_id = r2.term_id /\ r1.class_nbr = r2.class_nbr
            /\ r1.days = r2.days /\ r1.start_time = r2.start_time
            /\ r1.end_time = r2.end_time
            /\ r1.facility_descr = r2.facility_descr ) => r1 = r2
    /\ \A t1, t2 \in store.terms : t1.term_code = t2.term_code => t1 = t2

\* C9 (as claimed): a class-offerings run over a store that already holds the
\* result of the same buffered records leaves the Term and ClassOffering rows as
\* they were, and no stored rows share a key, null key fields included.
C9_IdempotentWithoutDuplicates ==
    /\ NoDuplicateRows(db)
    /\ ( /\ spider = "class_offerings" /\ pc = "closed" /\ failed = "none"
          /\ items # <<>>
          /\ \A c \in DOMAIN term_meta : TermReplaced(opened, c) )
         => (db.terms = opened.terms /\ db.class_offerings = opened.class_offerings)

\* C10: in every committed store every class_offerings row refers to a terms row
\* and every professor_tags row refers to a professor_ratings row.
C10_ReferentialIntegrity ==
    /\ \A r \in DOMAIN db.class_offerings : \E t \in db.terms : t.id = r.term_id
    /\ \A g \in db.professor_tags :
          \E p \in db.professor_ratings : p.id = g.professor_id

\* C10 witness: both kinds of child rows are stored and the last unit failed.
C10_Witness ==
    /\ db.class_offerings # EmptyBag
    /\ db.professor_tags # {}
    /\ failed # "none"

\* C11: terms are never deactivated. Every terms row, committed or written in an
\* open transaction, has is_active = TRUE, and no step removes a stored term or
\* turns its flag from TRUE to FALSE, whether or not the run buffered that term.
C11_TermsNeverDeactivated ==
    /\ [](\A r \in db.terms \cup tx.terms : r.is_active)
    /\ [][\A r \in db.terms :
            \E n \in db'.terms :
                n.term_code = r.term_code /\ (r.is_active => n.is_active)]_vars

\* C11 witness: a run that buffered other terms only has completed, and a term
\* stored before it is still stored and active.
C11_Witness ==
    /\ spider = "class_offerings" /\ pc = "closed" /\ items # <<>>
    /\ \E r \in db.terms :
          /\ r.term_code \notin DOMAIN term_meta
          /\ r \in opened.terms
          /\ r.is_active

\* The professor keys of the model's records.
ProfessorKeys == {"p1", "p2"}

\* The refresh of this run has committed its snapshot.
RefreshCommitted == pc = "closed" /\ failed = "none" /\ professors # <<>>

\* The (label, vote count) pairs stored for the professor with this key.
StoredTags(store, key) ==
    { [tag |-> t.tag, vote_count |-> t.vote_count] :
        t \in { g \in store.professor_tags :
                  \E p \in store.professor_ratings :
                      p.professor_key = key /\ p.id = g.professor_id } }

\* The identifiers of the records of the snapshot.
SnapshotKeys ==
    { NormalizeProfessorItem(professors[j]).professor_id : j \in 1..Len(professors) }

\* The j-th record is the one the refresh applied last for its professor.
LastOfItsKey(j) ==
    \A k \in (j + 1)..Len(professors) :
        NormalizeProfessorItem(professors[k]).professor_id
            # NormalizeProfessorItem(professors[j]).professor_id

\* C12: after a refresh has committed, the stored tags of every professor of the
\* snapshot are exactly the pairs of the record refreshed for that professor (none
\* when the record has no or an empty mapping), and the stored tags of every
\* professor that is not in the snapshot are those stored before the refresh.
C12_TagsFullyReplaced ==
    RefreshCommitted
        => /\ \A j \in 1..Len(professors) :
                LET item == NormalizeProfessorItem(professors[j])
                IN  (Truthy(item.professor_id) /\ LastOfItsKey(j))
                        => StoredTags(db, item.professor_id) = item.tags
           /\ \A key \in ProfessorKeys \ SnapshotKeys :
                StoredTags(db, key) = StoredTags(before, key)

\* C12 witness: a committed refresh left a professor that had tags stored with
\* none, while another professor, absent from the snapshot, has tags stored.
C12_Witness ==
    /\ RefreshCommitted
    /\ \E key \in SnapshotKeys \cap ProfessorKeys :
          StoredTags(before, key) # {} /\ StoredTags(db, key) = {}
    /\ \E key \in ProfessorKeys \ SnapshotKeys : StoredTags(db, key) # {}

\* The records of a snapshot that carry an identifier, in order.
WithIdentifier(profs) ==
    LET Has(p) == Truthy(NormalizeProfessorItem(p).professor_id)
    IN  SelectSeq(profs, Has)

\* C13: a record without an identifier is dropped and is not fatal. No stored or
\* pending Professor row has an empty key; the failure of a refresh is never the
\* turn of a record without an identifier; and a committed refresh leaves the
\* Professor and ProfessorTag rows exactly as applying, in order, the records of
\* the snapshot that have an identifier: each of them is upserted and committed,
\* and the records without one wrote nothing.
C13_RecordWithoutIdIsDropped ==
    /\ \A r \in db.professor_ratings \cup tx.professor_ratings :
          Truthy(r.professor_key)
    /\ failed = "apply"
          => Truthy(NormalizeProfessorItem(professors[idx]).professor_id)
    /\ RefreshCommitted
          => LET kept == WithIdentifier(professors)
                 done == ApplyPrefix(before, kept, Len(kept))
             IN  /\ db.professor_ratings = done.professor_ratings
                 /\ db.professor_tags = done.professor_tags
                 /\ \A j \in 1..Len(kept) :
                       \E r \in db.professor_ratings :
                           r.professor_key
                               = NormalizeProfessorItem(kept[j]).professor_id

\* C13 witness: a committed snapshot began with a record without an identifier
\* and the record after it was upserted.
C13_Witness ==
    /\ RefreshCommitted
    /\ Len(professors) >= 2
    /\ ~Truthy(NormalizeProfessorItem(professors[1]).professor_id)
    /\ Truthy(NormalizeProfessorItem(professors[2]).professor_id)
    /\ db.professor_ratings # before.professor_ratings

\* C20: a class-offerings run touches only the terms it buffered records for. At
\* every point of the run, for every term code without a buffered record (every
\* code when the buffer is empty), the Term row and the ClassOffering rows of that
\* term, committed or in the open transaction, are those the run opened with.
C20_UnbufferedTermsUntouched ==
    spider = "class_offerings"
        => \A c \in TermCodes \ DOMAIN term_meta :
              /\ TermRows(db, c) = TermRows(opened, c)
              /\ OfferingsOfCode(db, c) = OfferingsOfCode(opened, c)
              /\ TermRows(tx, c) = TermRows(opened, c)
              /\ OfferingsOfCode(tx, c) = OfferingsOfCode(opened, c)

\* C20 witness: a run has replaced the offerings of the term it buffered while
\* another term, for which it buffered nothing, has offerings stored.
C20_Witness ==
    /\ spider = "class_offerings" /\ pc = "closed" /\ items # <<>>
    /\ db.class_offerings # opened.class_offerings
    /\ \E c \in TermCodes \ DOMAIN term_meta : OfferingsOfCode(db, c) # EmptyBag

\* C20 witness for the empty buffer: close_spider returned at once over a store
\* that holds terms and offerings.
C20_WitnessEmptyBuffer ==
    /\ spider = "class_offerings" /\ pc = "closed" /\ items = <<>>
    /\ "refreshed" \notin log
    /\ db.terms # {} /\ db.class_offerings # EmptyBag

\* The terms row _get_or_create_term has just committed.
UpsertedTermRow == CHOOSE r \in db.terms : r.term_code = Head(by_term).term_code

\* C19 (as claimed): right after a term's upsert commits, the stored Term row
\* carries the name, start date, end date and academic year derived from this run's
\* metadata for the term, whether the row is new or was stored with other values.
C19_TermRowCarriesRunMetadata ==
    (spider = "class_offerings" /\ pc = "replace")
        => LET meta == term_meta[Head(by_term).term_code]
               dates == TermDates(meta.term_date_text)
           IN  /\ UpsertedTermRow.term_name = meta.term_name
               /\ UpsertedTermRow.term_start = dates.term_start
               /\ UpsertedTermRow.term_end = dates.term_end
               /\ UpsertedTermRow.academic_year = AcademicYear(meta.term_name)

\* What does hold of the row: name and dates are this run's; the academic year is
\* this run's only when the row is new, else the one stored before.
C19_AcademicYearOnlyOnInsert ==
    (spider = "class_offerings" /\ pc = "replace")
        => LET meta == term_meta[Head(by_term).term_code]
               dates == TermDates(meta.term_date_text)
               old == TermRows(before, meta.term)
           IN  /\ UpsertedTermRow.term_name = meta.term_name
               /\ UpsertedTermRow.term_start = dates.term_start
               /\ UpsertedTermRow.term_end = dates.term_end
               /\ UpsertedTermRow.academic_year =
                     IF old = {} THEN AcademicYear(meta.term_name)
                     ELSE (CHOOSE r \in old : TRUE).academic_year

\* Four digits in a row start at position i of s.
FourDigitsAt(s, i) == i + 3 <= Len(s) /\ \A k \in i..(i + 3) : s[k] \in Digits

\* The number a text of decimal digits writes.
RECURSIVE DecimalValue(_)
DecimalValue(s) ==
    IF s = <<>> THEN 0
    ELSE 10 * DecimalValue(SubSeq(s, 1, Len(s) - 1)) + DigitVal(s[Len(s)])

\* C16: for every term name, academic_year is 2025 when the name holds no 4-digit
\* year; otherwise, with y the first 4-digit year in the name, it is y when the name
\* contains "Fall" and y - 1 when it does not.
C16_AcademicYearDerivation ==
    call.fn = "academic_year"
        => IF \A i \in 1..Len(call.arg) : ~FourDigitsAt(call.arg, i)
           THEN call.res = 2025
           ELSE \E i \in 1..Len(call.arg) :
                   /\ FourDigitsAt(call.arg, i)
                   /\ \A j \in 1..(i - 1) : ~FourDigitsAt(call.arg, j)
                   /\ LET y == DecimalValue(SubSeq(call.arg, i, i + 3))
                      IN  call.res = IF Contains(call.arg, <<"F", "a", "l", "l">>)
                                     THEN y ELSE y - 1

\* C16 witness: a name without "Fall" that holds two different years got the first
\* one less one.
C16_Witness ==
    /\ call.fn = "academic_year"
    /\ call.arg = <<"S", "p", "r", "i", "n", "g", " ", "2", "0", "2", "6", " ",
                    "2", "0", "2", "5">>
    /\ call.res = 2025

\* "Last, First" with the dangling comma and space dropped when a part is empty.
ExpectedName(last, first) ==
    IF last = <<>> THEN first
    ELSE IF first = <<>> THEN last
    ELSE last \o <<",", " ">> \o first

\* The name every normalised record must carry: the direct name when there is one,
\* else the name built from the first and last name fields.
NameAsClaimed(raw, item) ==
    IF HasText(raw, "name") THEN item.name = raw.name
    ELSE item.name = ExpectedName(Get(raw, "lastName", <<>>),
                                  Get(raw, "firstName", <<>>))

\* The record holds the key with a value that is not null.
CarriesValue(d, key) == key \in DOMAIN d /\ d[key] # Null

\* What the standalone path must give: the spider's item holds the identifier and
\* the clarity metric of the raw record under the newer keys.
ParsedAsClaimed ==
    call.fn = "parse_normalize"
        => /\ call.res.name = ExpectedName(Get(call.arg, "lastName", <<>>),
                                           Get(call.arg, "firstName", <<>>))
           /\ call.res.professor_id = Get(call.arg, "id", Null)
           /\ call.res.clarity = Get(call.arg, "materialClear", Null)

\* C18 (as claimed): a record with no direct name gets "Last, First", trimmed; the
\* identifier and the clarity metric are each read from the newer key when it
\* carries a value and from the older key otherwise.
C18_NewerFieldWhenItCarriesAValue ==
    /\ ParsedAsClaimed
    /\ call.fn = "normalize"
        => /\ NameAsClaimed(call.arg, call.res)
           /\ call.res.professor_id =
                 IF CarriesValue(call.arg, "professor_id") THEN call.arg.professor_id
                 ELSE Get(call.arg, "id", Null)
           /\ call.res.clarity =
                 IF CarriesValue(call.arg, "clarity") THEN call.arg.clarity
                 ELSE Get(call.arg, "materialClear", Null)

\* C18 (amended): the name as claimed; the identifier and the clarity metric are
\* each read from the newer key when the record has that key, null value included,
\* and from the older key only when the newer key is absent.
C18_NewerFieldWhenPresent ==
    /\ ParsedAsClaimed
    /\ call.fn = "normalize"
        => /\ NameAsClaimed(call.arg, call.res)
           /\ call.res.professor_id =
                 IF "professor_id" \in DOMAIN call.arg THEN call.arg.professor_id
                 ELSE Get(call.arg, "id", Null)
           /\ call.res.clarity =
                 IF "clarity" \in DOMAIN call.arg THEN call.arg.clarity
                 ELSE Get(call.arg, "materialClear", Null)

\* C18 witness: a record without a direct name and with an empty first name, whose
\* newer identifier key is null while the older keys carry values, was normalised:
\* the name is the last name alone and the identifier is null.
C18_Witness ==
    /\ call.fn = "normalize"
    /\ ~HasText(call.arg, "name")
    /\ "firstName" \in DOMAIN call.arg /\ call.arg.firstName = <<>>
    /\ call.res.name = <<"N", "g">>
    /\ "professor_id" \in DOMAIN call.arg /\ call.arg.professor_id = Null
    /\ "id" \in DOMAIN call.arg
    /\ "clarity" \notin DOMAIN call.arg /\ "materialClear" \in DOMAIN call.arg
    /\ call.res.professor_id = Null
    /\ call.res.clarity = "3.0"

\* The whitespace-separated tokens of a text: the positions where one starts.
TokenStarts(s) ==
    { i \in 1..Len(s) : s[i] \notin Whitespace /\ (i = 1 \/ s[i - 1] \in Whitespace) }

\* The text writes an integer: digits, after an optional sign, nothing else.
IsIntegerText(s) ==
    LET body == IF s # <<>> /\ Head(s) \in {"+", "-"} THEN Tail(s) ELSE s
    IN  body # <<>> /\ \A k \in 1..Len(body) : body[k] \in Digits

\* The rows the parser must emit nothing for: cancelled marker, course name of
\* fewer than 2 tokens, class-number cell empty or a placeholder, class-number
\* text that is no integer.
MustSkip(row) ==
    \/ Contains(row.class, <<"c", "a", "n", "c", "e", "l", "l", "e", "d">>)
    \/ Cardinality(TokenStarts(row.course)) < 2
    \/ Strip(row.class_nbr, Whitespace) = <<>>
    \/ Head(Strip(row.class_nbr, Whitespace)) = "*"
    \/ ~IsIntegerText(Strip(row.class_nbr, Whitespace))

\* The rows the loop has been through that are none of those, in order.
KeptRows ==
    LET Keep(row) == ~MustSkip(row) IN SelectSeq(SubSeq(page, 1, row_i - 1), Keep)

\* C17: the row parser never raises; it has emitted nothing for the rows that carry
\* the cancelled marker, have a course name of fewer than 2 tokens, an empty or
\* placeholder class-number cell or a class number that is no integer, and exactly
\* one record, in order, for each other row it has been through; it ends only
\* after the last row, so a skipped row does not stop the rows after it.
C17_RowParserSkipsWithoutRaising ==
    /\ parse_pc # "raised"
    /\ Len(yielded) = Len(KeptRows)
    /\ Len(yielded) <= row_i - 1
    /\ \A k \in 1..Len(yielded) :
          << yielded[k].class_nbr >> = IntParse(KeptRows[k].class_nbr)
    /\ parse_pc = "done" => row_i = Len(page) + 1

\* C17 witness: on a finished page a row whose class number is no integer was
\* skipped and the row after it was emitted.
C17_Witness ==
    /\ parse_pc = "done" /\ Len(page) = 2
    /\ page[1].class_nbr = <<"1", "7", "a">>
    /\ ~MustSkip(page[2])
    /\ Len(yielded) = 1

\* The text of a count cell as an int, NoInt when it writes none.
CellInt(c) ==
    IF IsIntegerText(Strip(c, Whitespace)) THEN IntParse(c) ELSE NoInt

\* C15 (as claimed): for every emitted row, seats_available is null when the row
\* has fewer than 3 count cells or its 2nd or 3rd cell is not an integer, and
\* otherwise max(0, capacity - enrolled) with capacity the 2nd cell and enrolled
\* the 3rd.
C15_SeatsFromCountCells ==
    \A k \in 1..Len(yielded) :
        k <= Len(KeptRows)
            => LET cells == KeptRows[k].cells
               IN  yielded[k].enrollment_available =
                      IF Len(cells) < 3 THEN NoInt
                      ELSE IF CellInt(cells[2]) = NoInt \/ CellInt(cells[3]) = NoInt
                           THEN NoInt
                      ELSE << Max(0, CellInt(cells[2])[1] - CellInt(cells[3])[1]) >>

\* What does hold: seats_available is never negative, and the claimed value is the
\* one computed when every count cell of the row has text.
C15_SeatsWhenEveryCellHasText ==
    \A k \in 1..Len(yielded) :
        /\ yielded[k].enrollment_available # NoInt
              => yielded[k].enrollment_available[1] >= 0
        /\ (k <= Len(KeptRows)
              /\ \A n \in 1..Len(KeptRows[k].cells) : KeptRows[k].cells[n] # <<>>)
              => LET cells == KeptRows[k].cells
                 IN  yielded[k].enrollment_available =
                        IF Len(cells) < 3 THEN NoInt
                        ELSE IF CellInt(cells[2]) = NoInt \/ CellInt(cells[3]) = NoInt
                             THEN NoInt
                        ELSE << Max(0, CellInt(cells[2])[1] - CellInt(cells[3])[1]) >>

\* The index pages one link away from a set of index pages, and those within.
LinkStep(pages) == pages \cup UNION { site[p].term_links : p \in pages }

\* The index pages reachable from the seed over term-index links (three pages).
ReachableIndexPages == LinkStep(LinkStep(LinkStep({SeedUrl})))

\* C14 (as claimed): when the crawl is over, one (term page, term metadata) pair
\* has been produced for every distinct term page reachable from the seed over
\* term-index links, not only for the seed page.
C14_EveryReachableTermPageEmitted ==
    crawl_pc = "done"
        => { f.url : f \in found }
              = { p \in ReachableIndexPages : site[p].term_code # "" }

\* What does hold of the crawl: it ends, every URL was let through once at most,
\* and the only page a pair was produced for is the seed.
C14_OnlyTheSeedIsVisited ==
    /\ \A r1, r2 \in pending : r1.url = r2.url => r1 = r2
    /\ \A r \in pending : r.url \in seen
    /\ { f.url : f \in found } \subseteq {SeedUrl}
    /\ seen \cap IndexPages \subseteq {SeedUrl}

\* Every term code of the model's items.
AllTermCodes == TermCodes \cup {"2268"}

\* The run has gone past collecting with items of terms that were all stored
\* when it opened: a later run over terms seen before.
RerunOverStoredTerms ==
    /\ spider = "class_offerings" /\ items # <<>>
    /\ pc \notin {"collecting", "interrupted"}
    /\ \A c \in DOMAIN term_meta : TermRows(opened, c) # {}

\* C21: over any sequence of class-offerings runs, a term code has been detected
\* as newly seen by no run while it has no Term row, and by exactly one run, the
\* one whose upsert committed the row, from then on; a later run over terms that
\* are all stored detects none as new and does not trigger the professor refresh,
\* whether or not the refresh of the detecting run succeeded.
C21_NewlySeenAtMostOnce ==
    /\ \A c \in AllTermCodes :
          CopiesIn(c, newly_seen) = IF TermRows(db, c) = {} THEN 0 ELSE 1
    /\ RerunOverStoredTerms
          => (~saw_new_term /\ log = {} /\ pc \notin {"refresh", "apply"})

\* C21 witness: a later run over stored terms, each detected as new once before,
\* has closed without triggering the refresh, and no refresh has stored a
\* professor so far.
C21_Witness ==
    /\ RerunOverStoredTerms /\ pc = "closed"
    /\ \A c \in DOMAIN term_meta : CopiesIn(c, newly_seen) = 1
    /\ ~saw_new_term /\ log = {}
    /\ db.professor_ratings = {}

====
